---- MODULE Spec2Model ----
(***************************************************************************)
(* A model of server.js: the recency cache (entryCache, cacheGet,          *)
(* cacheSet), the bucket router (bucketOf), the lazily loaded shard store  *)
(* (shardCache, loadShard), and the two request handlers GET /word/:key    *)
(* and GET /search with their sharded and streaming branches.              *)
(*                                                                         *)
(* Strings of the program are sequences of one-character strings, so that  *)
(* trim, startsWith and "first codepoint" are computed, not assumed.       *)
(***************************************************************************)
EXTENDS Integers, Sequences, FiniteSets, TLC

VARIABLES
    entryCache,     \* the Map entryCache: sequence of [key, value], oldest first
    clock,          \* ghost: number of cache operations applied directly
    lastUse,        \* ghost: key -> clock value of its last cacheSet / cacheGet hit
    lastOp,         \* ghost: the last direct cache operation
    started,        \* app.listen has been called (initShardsIfAvailable resolved)
    manifestReadable, \* environment: the manifest file can be read and parsed
    shardsEnabled,  \* the flag shardsEnabled
    alive,          \* the process has not died of an uncaught exception
    shardCache,     \* the Map shardCache: bucket -> none / pending / resolved promise
    shardFile,      \* environment: what reading a bucket's file turned out to be
    reads,          \* ghost: number of fsp.readFile calls started per bucket
    srcStatus,      \* environment: the state of the file at DICT_PATH
    dictionary,     \* the object dictionary of the server that loads the whole file
    req             \* the in-flight requests, one record per slot

vars == <<entryCache, clock, lastUse, lastOp, started, manifestReadable,
          shardsEnabled, alive, shardCache, shardFile, reads, srcStatus, dictionary, req>>

cacheGhost == <<clock, lastUse, lastOp>>
serverVars == <<started, manifestReadable, shardsEnabled, alive, shardCache,
                shardFile, reads, srcStatus, dictionary, req>>

----------------------------------------------------------------------------
(* Bounds of the model *)

\* number of cache operations applied in the cache-only specification
MaxOps == 6
\* number of request slots (requests in flight at the same time)
MaxReq == 2
\* the ghost counter reads[b] saturates here
MaxReads == 2
\* length of the keys given to bucketOf in the router-only specification
MaxKeyLen == 3

\* CACHE_LIMIT (server.js:47), configured small
CACHE_LIMIT == 2

----------------------------------------------------------------------------
(* Strings *)

UNDEFINED == "undefined"

K_cat == <<"c", "a", "t">>
K_ca == <<"c", "a">>
K_cab == <<"c", "a", "b">>
K_dog == <<"d", "o", "g">>
K_zzz == <<"z", "z", "z">>
K_constructor == <<"c", "o", "n", "s", "t", "r", "u", "c", "t", "o", "r">>
K_toString == <<"t", "o", "S", "t", "r", "i", "n", "g">>

Whitespace == {" "}
AsciiUpper == {"A", "B", "C", "D", "E", "F", "G", "H", "I", "J", "K", "L", "M",
               "N", "O", "P", "Q", "R", "S", "T", "U", "V", "W", "X", "Y", "Z"}
AsciiLower == {"a", "b", "c", "d", "e", "f", "g", "h", "i", "j", "k", "l", "m",
               "n", "o", "p", "q", "r", "s", "t", "u", "v", "w", "x", "y", "z"}
UpperSeq == <<"A", "B", "C", "D", "E", "F", "G", "H", "I", "J", "K", "L", "M",
              "N", "O", "P", "Q", "R", "S", "T", "U", "V", "W", "X", "Y", "Z">>
LowerSeq == <<"a", "b", "c", "d", "e", "f", "g", "h", "i", "j", "k", "l", "m",
              "n", "o", "p", "q", "r", "s", "t", "u", "v", "w", "x", "y", "z">>
Digits == <<"0", "1", "2", "3", "4", "5", "6", "7", "8", "9">>

\* String.prototype.toLowerCase on one character
toLowerCase(ch) ==
    IF ch \in AsciiUpper
    THEN LowerSeq[CHOOSE i \in 1..26 : UpperSeq[i] = ch]
    ELSE ch

RECURSIVE trimStart(_)
trimStart(s) ==
    IF s # <<>> /\ Head(s) \in Whitespace THEN trimStart(Tail(s)) ELSE s

RECURSIVE trimEnd(_)
trimEnd(s) ==
    IF s # <<>> /\ s[Len(s)] \in Whitespace
    THEN trimEnd(SubSeq(s, 1, Len(s) - 1))
    ELSE s

\* String.prototype.trim
trim(s) == trimEnd(trimStart(s))

\* String.prototype.startsWith
startsWith(k, q) == Len(q) <= Len(k) /\ SubSeq(k, 1, Len(q)) = q

\* a bucketOf that keeps the case of the first character
bucketOf_keepCase(key) ==
    LET trimmed == trim(key) IN
    IF trimmed = <<>> THEN "_misc" ELSE trimmed[1]

\* bucketOf (req.params.key and the query are always strings)
bucketOf(key) ==
    LET trimmed == trim(key) IN
    IF trimmed = <<>> THEN "_misc"
    ELSE LET first == trimmed[1] IN
         IF first \in AsciiUpper \cup AsciiLower THEN toLowerCase(first) ELSE first

----------------------------------------------------------------------------
(* The recency cache: entryCache, cacheGet, cacheSet *)

\* Map.prototype.has / get / delete / set / size on a sequence of [key, value]
mapHas(m, k) == \E i \in 1..Len(m) : m[i].key = k
mapGet(m, k) ==
    IF mapHas(m, k) THEN m[CHOOSE i \in 1..Len(m) : m[i].key = k].value ELSE UNDEFINED
mapDelete(m, k) == SelectSeq(m, LAMBDA e : e.key # k)
mapSet(m, k, v) ==
    IF mapHas(m, k)
    THEN [i \in 1..Len(m) |-> IF m[i].key = k THEN [key |-> k, value |-> v] ELSE m[i]]
    ELSE Append(m, [key |-> k, value |-> v])
mapKeys(m) == {m[i].key : i \in 1..Len(m)}

\* a cacheGet that returns the value without refreshing the entry's position
cacheGet_noTouch(m, k) == [value |-> mapGet(m, k), cache |-> m]

\* cacheGet: the returned value and the Map afterwards
cacheGet(m, k) ==
    IF ~mapHas(m, k) THEN [value |-> UNDEFINED, cache |-> m]
    ELSE LET v == mapGet(m, k) IN
         [value |-> v, cache |-> mapSet(mapDelete(m, k), k, v)]

\* a cacheSet that never evicts
cacheSet_noEvict(m, k, v) ==
    mapSet(IF mapHas(m, k) THEN mapDelete(m, k) ELSE m, k, v)

\* cacheSet: the Map afterwards
cacheSet(m, k, v) ==
    LET m1 == IF mapHas(m, k) THEN mapDelete(m, k) ELSE m
        m2 == mapSet(m1, k, v)
    IN  IF Len(m2) > CACHE_LIMIT THEN mapDelete(m2, m2[1].key) ELSE m2

----------------------------------------------------------------------------
(* The dataset and the files *)

\* the members of dictionary.json, in file order
Source == <<[key |-> K_cat, value |-> "v_cat"],
            [key |-> K_ca, value |-> "v_ca"],
            [key |-> K_cab, value |-> "v_cab"],
            [key |-> K_dog, value |-> "v_dog"]>>

DatasetKeys == {Source[i].key : i \in 1..Len(Source)}

\* the keys and queries that requests carry
WordKeys == {K_cat, K_ca, K_zzz, K_constructor}

\* req.query.limit: absent, not a number, or a number
LimitAbsent == [t |-> "absent", n |-> 0]
LimitText == [t |-> "text", n |-> 0]
LimitNum(n) == [t |-> "num", n |-> n]

\* the (q, limit) pairs that prefix searches carry
SearchInputs == {[q |-> K_ca, limit |-> LimitNum(2)],
                 [q |-> K_ca, limit |-> LimitNum(0)],
                 [q |-> K_ca, limit |-> LimitText],
                 [q |-> <<" ", "c", "a", " ">>, limit |-> LimitNum(300)],
                 [q |-> <<"z">>, limit |-> LimitAbsent],
                 [q |-> <<"z">>, limit |-> LimitNum(-1)],
                 [q |-> <<" ">>, limit |-> LimitAbsent]}

Buckets == {bucketOf(k) : k \in WordKeys} \cup {bucketOf(i.q) : i \in SearchInputs}

\* the members of the shard file of a bucket, as the offline splitter wrote
\* them: every member of the source whose key routes to the bucket, in order
shardFileMembers(b) == SelectSeq(Source, LAMBDA e : bucketOf(e.key) = b)

\* what reading and parsing a shard file can turn out to be; the files hold
\* JSON objects when they are well formed
ShardOutcomes == {"ok", "missing", "ioerr", "badjson"}
\* the source: well formed; cannot be opened (missing or unreadable); malformed
\* text somewhere in it; a top-level value that is not an object
SrcStatuses == {"ok", "missing", "badjson", "notobject"}

----------------------------------------------------------------------------
(* JavaScript objects: own properties in property order, then the prototype *)

EmptyObject == <<>>

\* properties that every plain object inherits from Object.prototype
ObjectPrototype ==
    [k \in {K_constructor, K_toString} |->
        IF k = K_constructor THEN "[Function: Object]" ELSE "[Function: toString]"]

isDigit(ch) == \E i \in 1..10 : Digits[i] = ch
digitValue(ch) == (CHOOSE i \in 1..10 : Digits[i] = ch) - 1

RECURSIVE numericValue(_)
numericValue(s) ==
    IF s = <<>> THEN 0
    ELSE 10 * numericValue(SubSeq(s, 1, Len(s) - 1)) + digitValue(s[Len(s)])

\* a canonical array index: such property names are enumerated first, ascending
isArrayIndex(k) ==
    /\ k # <<>>
    /\ Len(k) <= 9
    /\ \A i \in 1..Len(k) : isDigit(k[i])
    /\ (Len(k) > 1 => k[1] # "0")

RECURSIVE insertByIndex(_, _)
insertByIndex(sorted, e) ==
    IF sorted = <<>> THEN <<e>>
    ELSE IF numericValue(e.key) < numericValue(Head(sorted).key)
         THEN <<e>> \o sorted
         ELSE <<Head(sorted)>> \o insertByIndex(Tail(sorted), e)

RECURSIVE sortByIndex(_)
sortByIndex(s) ==
    IF s = <<>> THEN <<>> ELSE insertByIndex(sortByIndex(Tail(s)), Head(s))

\* JSON.parse of an object text: the object's own properties in property order
jsonParse(members) ==
    sortByIndex(SelectSeq(members, LAMBDA e : isArrayIndex(e.key)))
        \o SelectSeq(members, LAMBDA e : ~isArrayIndex(e.key))

\* Object.keys(obj)
objectKeys(obj) == [i \in 1..Len(obj) |-> obj[i].key]

\* obj[k]: an own property, else an inherited one, else undefined
propGet(obj, k) ==
    IF mapHas(obj, k) THEN mapGet(obj, k)
    ELSE IF k \in DOMAIN ObjectPrototype THEN ObjectPrototype[k]
    ELSE UNDEFINED

----------------------------------------------------------------------------
(* Requests *)

Slots == 1..MaxReq

NoBody == [value |-> UNDEFINED, matches |-> <<>>, truncated |-> FALSE]

IdleReq == [kind |-> "none", key |-> <<>>, limit |-> [nan |-> FALSE, n |-> 0],
            pc |-> "idle", bucket |-> "_misc", stream |-> "none", pos |-> 0,
            responded |-> FALSE, matches |-> <<>>, status |-> 0,
            body |-> NoBody, nresp |-> 0, fault |-> "none", route |-> "none"]

\* res.status(code).json(body): the first call sends the response; a call on a
\* response already sent throws (headers already sent)
resJson(rq, code, body) ==
    IF rq.nresp = 0
    THEN [rq EXCEPT !.status = code, !.body = body, !.nresp = 1, !.pc = "done"]
    ELSE [rq EXCEPT !.nresp = 2]

valueBody(v) == [NoBody EXCEPT !.value = v]
matchBody(m, t) == [NoBody EXCEPT !.matches = m, !.truncated = t]

\* Math.min(Number(req.query.limit || 50), 200)
limitOf(param) ==
    IF param.t = "absent" THEN [nan |-> FALSE, n |-> 50]
    ELSE IF param.t = "text" THEN [nan |-> TRUE, n |-> 0]
    ELSE [nan |-> FALSE, n |-> IF param.n < 200 THEN param.n ELSE 200]

\* matches.length >= limit
reachedLimit(len, limit) == ~limit.nan /\ len >= limit.n

----------------------------------------------------------------------------
(* The shard store: shardCache, loadShard *)

NoPromise == [state |-> "none", obj |-> EmptyObject]
PendingPromise == [state |-> "pending", obj |-> EmptyObject]

bumpReads(b) == [reads EXCEPT ![b] = IF @ < MaxReads THEN @ + 1 ELSE @]

\* a loadShard that does not consult shardCache before reading
loadShard_noMemo(b) ==
    /\ shardCache' = [shardCache EXCEPT ![b] = PendingPromise]
    /\ reads' = bumpReads(b)

\* loadShard up to its first suspension: a memoized promise is returned as it
\* is; otherwise readFile is called and the pending promise is memoized
loadShard(b) ==
    IF shardCache[b].state # "none"
    THEN UNCHANGED <<shardCache, reads>>
    ELSE /\ shardCache' = [shardCache EXCEPT ![b] = PendingPromise]
         /\ reads' = bumpReads(b)

\* the value the promise of loadShard settles with: readFile and JSON.parse
\* inside try, and a catch of every exception that returns {}
shardValue(b, outcome) ==
    IF outcome = "ok"
    THEN [state |-> "resolved", obj |-> jsonParse(shardFileMembers(b))]
    ELSE [state |-> "resolved", obj |-> EmptyObject]

----------------------------------------------------------------------------
(* GET /word/:key *)

\* the sharded branch after `await loadShard(bucket)`
wordResolve(rq, cache, shard) ==
    LET value == propGet(shard.obj, rq.key) IN
    IF value # UNDEFINED
    THEN [rq |-> resJson(rq, 200, valueBody(value)),
          cache |-> cacheSet(cache, rq.key, value)]
    ELSE [rq |-> resJson(rq, 404, NoBody), cache |-> cache]

\* a 'data' handler that answers without destroying the streams
wordOnData_noDestroy(rq, cache, member) ==
    IF member.key = rq.key
    THEN [rq |-> resJson([rq EXCEPT !.responded = TRUE], 200, valueBody(member.value)),
          cache |-> cacheSet(cache, rq.key, member.value)]
    ELSE [rq |-> rq, cache |-> cache]

\* pipeline.on('data') of the exact lookup
wordOnData(rq, cache, member) ==
    IF member.key = rq.key
    THEN [rq |-> resJson([rq EXCEPT !.responded = TRUE, !.stream = "destroyed"],
                         200, valueBody(member.value)),
          cache |-> cacheSet(cache, rq.key, member.value)]
    ELSE [rq |-> rq, cache |-> cache]

\* pipeline.on('end') of the exact lookup
wordOnEnd(rq) == IF ~rq.responded THEN resJson(rq, 404, NoBody) ELSE rq

\* pipeline.on('error') of the exact lookup
wordOnError(rq) == IF ~rq.responded THEN resJson(rq, 500, NoBody) ELSE rq

----------------------------------------------------------------------------
(* GET /search *)

\* the loop over Object.keys(shard) of the sharded branch, from index i on
RECURSIVE scanKeys(_, _, _, _, _)
scanKeys(keys, i, q, limit, matches) ==
    IF i > Len(keys) THEN matches
    ELSE IF startsWith(keys[i], q)
         THEN LET m == Append(matches, keys[i]) IN
              IF reachedLimit(Len(m), limit) THEN m
              ELSE scanKeys(keys, i + 1, q, limit, m)
         ELSE scanKeys(keys, i + 1, q, limit, matches)

\* the sharded branch after `await loadShard(bucket)`
searchResolve(rq, shard) ==
    LET matches == scanKeys(objectKeys(shard.obj), 1, rq.key, rq.limit, <<>>) IN
    resJson([rq EXCEPT !.matches = matches], 200,
            matchBody(matches, reachedLimit(Len(matches), rq.limit)))

\* pipeline.on('data') of the prefix search
searchOnData(rq, member) ==
    IF startsWith(member.key, rq.key)
    THEN LET m == Append(rq.matches, member.key) IN
         IF reachedLimit(Len(m), rq.limit)
         THEN resJson([rq EXCEPT !.matches = m, !.stream = "destroyed"],
                      200, matchBody(m, TRUE))
         ELSE [rq EXCEPT !.matches = m]
    ELSE rq

\* pipeline.on('end') of the prefix search
searchOnEnd(rq) == resJson(rq, 200, matchBody(rq.matches, FALSE))

\* pipeline.on('error') of the prefix search
searchOnError(rq) == resJson(rq, 500, NoBody)

----------------------------------------------------------------------------
(* The server *)

Serving == started /\ alive

\* a slot takes a new request when it is free; the lowest free slot is taken
Free(r) ==
    /\ req[r].pc \in {"idle", "done"}
    /\ \A p \in Slots : p < r => req[p].pc \notin {"idle", "done"}

\* the requests after request r became rq: the record of an answered request
\* is kept until the next request is answered
commit(r, rq) ==
    [p \in Slots |->
        IF p = r THEN rq
        ELSE IF rq.pc = "done" /\ req[p].pc = "done" THEN IdleReq
        ELSE req[p]]

\* an initShardsIfAvailable that enables sharded mode without the manifest
InitShards_noProbe ==
    /\ ~started
    /\ started' = TRUE
    /\ shardsEnabled' = TRUE
    /\ UNCHANGED <<entryCache, cacheGhost, manifestReadable, alive, shardCache,
                   shardFile, reads, srcStatus, dictionary, req>>

\* initShardsIfAvailable().then(() => app.listen(...)); manifestReadable says
\* that the whole try block (access, readFile, JSON.parse) completes
InitShards ==
    /\ ~started
    /\ started' = TRUE
    /\ shardsEnabled' = manifestReadable
    /\ UNCHANGED <<entryCache, cacheGhost, manifestReadable, alive, shardCache,
                   shardFile, reads, srcStatus, dictionary, req>>

\* GET /word/:key up to its first suspension
WordStart(r, k) ==
    /\ Serving /\ Free(r)
    /\ LET hit == cacheGet(entryCache, k)
           rq == [IdleReq EXCEPT !.kind = "word", !.key = k]
       IN  /\ entryCache' = hit.cache
           /\ IF hit.value # UNDEFINED
              THEN /\ req' = commit(r,
                                resJson([rq EXCEPT !.route = "cache"], 200,
                                        valueBody(hit.value)))
                   /\ UNCHANGED <<shardCache, reads>>
              ELSE IF shardsEnabled
              THEN /\ loadShard(bucketOf(k))
                   /\ req' = commit(r,
                                [rq EXCEPT !.pc = "awaitShard", !.route = "shard",
                                           !.bucket = bucketOf(k)])
              ELSE /\ req' = commit(r,
                                [rq EXCEPT !.pc = "streaming", !.route = "stream",
                                           !.stream = "open"])
                   /\ UNCHANGED <<shardCache, reads>>
    /\ UNCHANGED <<cacheGhost, started, manifestReadable, shardsEnabled, alive,
                   shardFile, srcStatus, dictionary>>

\* the read of a shard file completes and the memoized promise settles
ShardReadDone(b) ==
    /\ alive
    /\ shardCache[b].state = "pending"
    /\ \E o \in ShardOutcomes :
          /\ shardFile' = [shardFile EXCEPT ![b] = o]
          /\ shardCache' = [shardCache EXCEPT ![b] = shardValue(b, o)]
    /\ UNCHANGED <<entryCache, cacheGhost, started, manifestReadable, shardsEnabled,
                   alive, reads, srcStatus, dictionary, req>>

\* GET /word/:key resumes after `await loadShard(bucket)`
WordResume(r) ==
    /\ alive
    /\ req[r].kind = "word" /\ req[r].pc = "awaitShard"
    /\ shardCache[req[r].bucket].state = "resolved"
    /\ LET out == wordResolve(req[r], entryCache, shardCache[req[r].bucket]) IN
          /\ req' = commit(r, out.rq)
          /\ entryCache' = out.cache
    /\ UNCHANGED <<cacheGhost, started, manifestReadable, shardsEnabled, alive,
                   shardCache, shardFile, reads, srcStatus, dictionary>>

\* the stream of request r can deliver its next member
CanDeliver(r) ==
    /\ alive
    /\ req[r].stream = "open"
    /\ req[r].pos < Len(Source)
    /\ srcStatus \in {"ok", "badjson"}

\* the stream of request r reaches the end of a well-formed source
CanEnd(r) ==
    /\ alive
    /\ req[r].stream = "open"
    /\ req[r].pos = Len(Source)
    /\ srcStatus = "ok"

\* streamObject emits 'error': the top-level value of the source is no object,
\* or its _destroy reports an error after destroy() was called
CanFailPipeline(r) ==
    /\ alive
    /\ \/ req[r].stream = "open" /\ srcStatus = "notobject"
       \/ req[r].stream = "destroyed"

\* an uncaught exception ends the process: a handler threw (res.json on a
\* response already sent)
survives(rq) == rq.nresp < 2

WordStreamData(r) ==
    /\ req[r].kind = "word" /\ CanDeliver(r)
    /\ LET rq == [req[r] EXCEPT !.pos = @ + 1]
           out == wordOnData(rq, entryCache, Source[rq.pos])
       IN  /\ req' = commit(r, out.rq)
           /\ entryCache' = out.cache
           /\ alive' = survives(out.rq)
    /\ UNCHANGED <<cacheGhost, started, manifestReadable, shardsEnabled,
                   shardCache, shardFile, reads, srcStatus, dictionary>>

WordStreamEnd(r) ==
    /\ req[r].kind = "word" /\ CanEnd(r)
    /\ LET rq == wordOnEnd([req[r] EXCEPT !.stream = "ended"]) IN
          /\ req' = commit(r, rq)
          /\ alive' = survives(rq)
    /\ UNCHANGED <<entryCache, cacheGhost, started, manifestReadable, shardsEnabled,
                   shardCache, shardFile, reads, srcStatus, dictionary>>

WordStreamError(r) ==
    /\ req[r].kind = "word" /\ CanFailPipeline(r)
    /\ LET rq == wordOnError([req[r] EXCEPT
                     !.fault = IF req[r].stream = "open" THEN "shape" ELSE @,
                     !.stream = "errored"])
       IN /\ req' = commit(r, rq)
          /\ alive' = survives(rq)
    /\ UNCHANGED <<entryCache, cacheGhost, started, manifestReadable, shardsEnabled,
                   shardCache, shardFile, reads, srcStatus, dictionary>>

\* readStream or parser() emits 'error' (the file is missing or unreadable, or
\* its text is malformed): neither has an 'error' listener, pipe() forwards no
\* errors, and the unhandled 'error' event is thrown as an uncaught exception
UpstreamError(r) ==
    /\ alive
    /\ req[r].stream = "open"
    /\ srcStatus \in {"missing", "badjson"}
    /\ req' = commit(r, [req[r] EXCEPT
                             !.fault = IF srcStatus = "badjson" THEN "parse" ELSE "io",
                             !.stream = "errored"])
    /\ alive' = FALSE
    /\ UNCHANGED <<entryCache, cacheGhost, started, manifestReadable, shardsEnabled,
                   shardCache, shardFile, reads, srcStatus, dictionary>>

\* a GET /search that consults the entry cache for its query, as /word does
\* for its key
SearchStart_cacheCheck(r, in) ==
    /\ Serving /\ Free(r)
    /\ LET q == trim(in.q)
           rq == [IdleReq EXCEPT !.kind = "search", !.key = q,
                                 !.limit = limitOf(in.limit)]
       IN  IF q = <<>>
           THEN /\ req' = commit(r, resJson(rq, 400, NoBody))
                /\ UNCHANGED <<shardCache, reads, entryCache>>
           ELSE IF shardsEnabled
           THEN /\ loadShard(bucketOf(q))
                /\ entryCache' = cacheGet(entryCache, q).cache
                /\ req' = commit(r,
                             [rq EXCEPT !.pc = "awaitShard", !.route = "shard",
                                        !.bucket = bucketOf(q)])
           ELSE /\ req' = commit(r,
                             [rq EXCEPT !.pc = "streaming", !.route = "stream",
                                           !.stream = "open"])
                /\ entryCache' = cacheGet(entryCache, q).cache
                /\ UNCHANGED <<shardCache, reads>>
    /\ UNCHANGED <<cacheGhost, started, manifestReadable, shardsEnabled,
                   alive, shardFile, srcStatus, dictionary>>

\* GET /search up to its first suspension
SearchStart(r, in) ==
    /\ Serving /\ Free(r)
    /\ LET q == trim(in.q)
           rq == [IdleReq EXCEPT !.kind = "search", !.key = q,
                                 !.limit = limitOf(in.limit)]
       IN  IF q = <<>>
           THEN /\ req' = commit(r, resJson(rq, 400, NoBody))
                /\ UNCHANGED <<shardCache, reads>>
           ELSE IF shardsEnabled
           THEN /\ loadShard(bucketOf(q))
                /\ req' = commit(r,
                             [rq EXCEPT !.pc = "awaitShard", !.route = "shard",
                                        !.bucket = bucketOf(q)])
           ELSE /\ req' = commit(r,
                             [rq EXCEPT !.pc = "streaming", !.route = "stream",
                                           !.stream = "open"])
                /\ UNCHANGED <<shardCache, reads>>
    /\ UNCHANGED <<entryCache, cacheGhost, started, manifestReadable, shardsEnabled,
                   alive, shardFile, srcStatus, dictionary>>

\* GET /search resumes after `await loadShard(bucket)`
SearchResume(r) ==
    /\ alive
    /\ req[r].kind = "search" /\ req[r].pc = "awaitShard"
    /\ shardCache[req[r].bucket].state = "resolved"
    /\ req' = commit(r, searchResolve(req[r], shardCache[req[r].bucket]))
    /\ UNCHANGED <<entryCache, cacheGhost, started, manifestReadable, shardsEnabled,
                   alive, shardCache, shardFile, reads, srcStatus, dictionary>>

SearchStreamData(r) ==
    /\ req[r].kind = "search" /\ CanDeliver(r)
    /\ LET rq0 == [req[r] EXCEPT !.pos = @ + 1]
           rq == searchOnData(rq0, Source[rq0.pos])
       IN  /\ req' = commit(r, rq)
           /\ alive' = survives(rq)
    /\ UNCHANGED <<entryCache, cacheGhost, started, manifestReadable, shardsEnabled,
                   shardCache, shardFile, reads, srcStatus, dictionary>>

SearchStreamEnd(r) ==
    /\ req[r].kind = "search" /\ CanEnd(r)
    /\ LET rq == searchOnEnd([req[r] EXCEPT !.stream = "ended"]) IN
          /\ req' = commit(r, rq)
          /\ alive' = survives(rq)
    /\ UNCHANGED <<entryCache, cacheGhost, started, manifestReadable, shardsEnabled,
                   shardCache, shardFile, reads, srcStatus, dictionary>>

SearchStreamError(r) ==
    /\ req[r].kind = "search" /\ CanFailPipeline(r)
    /\ LET rq == searchOnError([req[r] EXCEPT
                     !.fault = IF req[r].stream = "open" THEN "shape" ELSE @,
                     !.stream = "errored"])
       IN /\ req' = commit(r, rq)
          /\ alive' = survives(rq)
    /\ UNCHANGED <<entryCache, cacheGhost, started, manifestReadable, shardsEnabled,
                   shardCache, shardFile, reads, srcStatus, dictionary>>

----------------------------------------------------------------------------
(* Specifications *)

NoOp == [op |-> "none", key |-> <<>>, hit |-> FALSE, evicted |-> FALSE]

InitServer ==
    /\ entryCache = <<>>
    /\ clock = 0
    /\ lastUse = [k \in WordKeys |-> 0]
    /\ lastOp = NoOp
    /\ started = FALSE
    /\ manifestReadable \in BOOLEAN
    /\ shardsEnabled = FALSE
    /\ alive = TRUE
    /\ shardCache = [b \in Buckets |-> NoPromise]
    /\ shardFile = [b \in Buckets |-> "unread"]
    /\ reads = [b \in Buckets |-> 0]
    /\ srcStatus \in (IF manifestReadable THEN {"ok"} ELSE SrcStatuses)
    /\ req = [r \in Slots |-> IdleReq]

\* the sharded / streaming server does not load the whole file
Init == InitServer /\ dictionary = EmptyObject

Next ==
    \/ InitShards
    \/ \E r \in Slots, k \in WordKeys : WordStart(r, k)
    \/ \E b \in Buckets : ShardReadDone(b)
    \/ \E r \in Slots : WordResume(r)
    \/ \E r \in Slots : WordStreamData(r)
    \/ \E r \in Slots : WordStreamEnd(r)
    \/ \E r \in Slots : WordStreamError(r)
    \/ \E r \in Slots : UpstreamError(r)
    \/ \E r \in Slots, in \in SearchInputs : SearchStart(r, in)
    \/ \E r \in Slots : SearchResume(r)
    \/ \E r \in Slots : SearchStreamData(r)
    \/ \E r \in Slots : SearchStreamEnd(r)
    \/ \E r \in Slots : SearchStreamError(r)

Spec == Init /\ [][Next]_vars

\* the server started with a readable manifest: sharded mode
NextSharded ==
    \/ InitShards
    \/ \E r \in Slots, k \in WordKeys : WordStart(r, k)
    \/ \E b \in Buckets : ShardReadDone(b)
    \/ \E r \in Slots : WordResume(r)
    \/ \E r \in Slots, in \in SearchInputs : SearchStart(r, in)
    \/ \E r \in Slots : SearchResume(r)

InitSharded == Init /\ manifestReadable = TRUE

SpecSharded == InitSharded /\ [][NextSharded]_vars

\* the server started without a readable manifest: streaming mode
NextStreaming ==
    \/ InitShards
    \/ \E r \in Slots, k \in WordKeys : WordStart(r, k)
    \/ \E r \in Slots : WordStreamData(r)
    \/ \E r \in Slots : WordStreamEnd(r)
    \/ \E r \in Slots : WordStreamError(r)
    \/ \E r \in Slots : UpstreamError(r)
    \/ \E r \in Slots, in \in SearchInputs : SearchStart(r, in)
    \/ \E r \in Slots : SearchStreamData(r)
    \/ \E r \in Slots : SearchStreamEnd(r)
    \/ \E r \in Slots : SearchStreamError(r)

InitStreaming == Init /\ manifestReadable = FALSE

SpecStreaming == InitStreaming /\ [][NextStreaming]_vars

----------------------------------------------------------------------------
(* The cache alone, under any sequence of cacheGet and cacheSet *)

CacheOpKeys == {K_cat, K_ca, K_zzz}
CacheOpValues == {"v_1", "v_2"}

CacheGetOp(k) ==
    /\ clock < MaxOps
    /\ LET got == cacheGet(entryCache, k) IN
          /\ entryCache' = got.cache
          /\ lastUse' = IF got.value # UNDEFINED
                        THEN [lastUse EXCEPT ![k] = clock + 1] ELSE lastUse
          /\ lastOp' = [op |-> "get", key |-> k, hit |-> got.value # UNDEFINED,
                        evicted |-> FALSE]
    /\ clock' = clock + 1
    /\ UNCHANGED serverVars

CacheSetOp(k, v) ==
    /\ clock < MaxOps
    /\ entryCache' = cacheSet(entryCache, k, v)
    /\ lastUse' = [lastUse EXCEPT ![k] = clock + 1]
    /\ lastOp' = [op |-> "set", key |-> k, hit |-> mapHas(entryCache, k),
                  evicted |-> mapKeys(entryCache) \ mapKeys(entryCache') # {}]
    /\ clock' = clock + 1
    /\ UNCHANGED serverVars

InitCache == Init /\ manifestReadable = FALSE /\ srcStatus = "ok"

NextCache ==
    \/ \E k \in CacheOpKeys : CacheGetOp(k)
    \/ \E k \in CacheOpKeys, v \in CacheOpValues : CacheSetOp(k, v)

SpecCache == InitCache /\ [][NextCache]_vars

----------------------------------------------------------------------------
(* Recency cache: bound and eviction order *)

\* C1: after any sequence of cacheGet and cacheSet the cache holds at most
\* CACHE_LIMIT entries.
C1_CacheBounded == Len(entryCache) <= CACHE_LIMIT

\* a cacheSet of a new key has just overflowed a full cache and evicted
C1_Witness ==
    /\ lastOp.op = "set" /\ ~lastOp.hit /\ lastOp.evicted
    /\ Len(entryCache) = CACHE_LIMIT

UsedKeys == {k \in DOMAIN lastUse : lastUse[k] > 0}

\* C2: the cache holds exactly the CACHE_LIMIT most recently used keys (used =
\* stored by cacheSet or hit by cacheGet), oldest first, each once: an overflow
\* evicts one entry, the least recently used one.
C2_EvictsLeastRecentlyUsed ==
    /\ \A i, j \in 1..Len(entryCache) :
          i < j => lastUse[entryCache[i].key] < lastUse[entryCache[j].key]
    /\ \A k \in UsedKeys :
          mapHas(entryCache, k) <=>
              Cardinality({j \in UsedKeys : lastUse[j] > lastUse[k]}) < CACHE_LIMIT
    /\ mapKeys(entryCache) \subseteq UsedKeys
    /\ lastOp.op = "set" /\ ~lastOp.hit =>
          lastOp.evicted = (Cardinality(UsedKeys) > CACHE_LIMIT)

\* CACHE_LIMIT + 1 distinct keys were stored, the first of them was used again
\* in between, and the overflow evicted the second one
C2_Witness ==
    /\ lastOp = [op |-> "set", key |-> K_zzz, hit |-> FALSE, evicted |-> TRUE]
    /\ clock = CACHE_LIMIT + 2
    /\ lastUse[K_ca] = CACHE_LIMIT /\ lastUse[K_cat] = CACHE_LIMIT + 1
    /\ mapHas(entryCache, K_cat) /\ ~mapHas(entryCache, K_ca)


----------------------------------------------------------------------------
(* Shard store *)

\* C3: the file of a bucket is read exactly once if the bucket was ever
\* requested and never otherwise, however many lookups were routed to it and
\* whatever the read turned out to be.
C3_ShardReadOnce ==
    \A b \in Buckets :
        reads[b] = IF shardCache[b].state = "none" THEN 0 ELSE 1

\* an exact lookup and a prefix search wait on the same pending load
C3_Witness ==
    \E r1, r2 \in Slots :
        /\ req[r1].kind = "word" /\ req[r2].kind = "search"
        /\ req[r1].pc = "awaitShard" /\ req[r2].pc = "awaitShard"
        /\ req[r1].bucket = req[r2].bucket
        /\ shardCache[req[r1].bucket].state = "pending"
        /\ reads[req[r1].bucket] = 1

Done(r) == req[r].pc = "done"
ViaShard(r) == Done(r) /\ req[r].route = "shard"

\* C4: a request routed to a bucket whose file exists but cannot be read or
\* parsed ends in Fault (500).
C4_ShardFaultSurfaces ==
    \A r \in Slots :
        ViaShard(r) /\ shardFile[req[r].bucket] \in {"ioerr", "badjson"}
            => req[r].status = 500

\* C5: a request routed to a bucket whose file does not exist ends in
\* NotFound (404) for an exact lookup and in an empty match set for a search.
C5_MissingShardIsEmpty ==
    \A r \in Slots :
        ViaShard(r) /\ shardFile[req[r].bucket] = "missing" =>
            IF req[r].kind = "word" THEN req[r].status = 404
            ELSE req[r].status = 200 /\ req[r].body.matches = <<>>

----------------------------------------------------------------------------
(* Exact lookup *)

\* every file read so far was readable and well formed
AllReadable ==
    /\ srcStatus = "ok"
    /\ \A b \in Buckets : shardFile[b] \in {"unread", "ok"}

\* C6: with readable shards and source, an exact lookup of a key that the
\* dataset does not hold ends in NotFound (404), in either mode.
C6_AbsentKeyNotFound ==
    \A r \in Slots :
        Done(r) /\ req[r].kind = "word" /\ AllReadable
                /\ req[r].key \notin DatasetKeys
            => req[r].status = 404

\* the answer of a streaming scan of the source for key k
streamAnswer(k) ==
    IF \E i \in 1..Len(Source) : Source[i].key = k
    THEN [status |-> 200,
          value |-> Source[CHOOSE i \in 1..Len(Source) :
                              /\ Source[i].key = k
                              /\ \A j \in 1..(i - 1) : Source[j].key # k].value]
    ELSE [status |-> 404, value |-> UNDEFINED]

\* the answer of the sharded branch for key k
shardAnswer(k) ==
    LET value == propGet(jsonParse(shardFileMembers(bucketOf(k))), k) IN
    IF value # UNDEFINED THEN [status |-> 200, value |-> value]
    ELSE [status |-> 404, value |-> UNDEFINED]

answerOf(r) == [status |-> req[r].status, value |-> req[r].body.value]

\* C7: an exact lookup answered by one mode has the answer the other mode
\* gives for the same key.
C7_ModesAgree ==
    \A r \in Slots :
        Done(r) /\ req[r].kind = "word" /\ AllReadable =>
            /\ req[r].route = "shard" => answerOf(r) = streamAnswer(req[r].key)
            /\ req[r].route = "stream" => answerOf(r) = shardAnswer(req[r].key)

----------------------------------------------------------------------------
(* Prefix search *)

\* the number of keys starting with q among the members a search scans
prefixCount(members, q) ==
    Cardinality({i \in 1..Len(members) : startsWith(members[i].key, q)})

scanned(r) ==
    IF req[r].route = "shard" THEN shardFileMembers(req[r].bucket) ELSE Source

\* C8: a search with a numeric limit L over n matching keys returns exactly L
\* matches and truncated=true if n > L, and the n matches and truncated=false
\* if n < L.
C8_PrefixTruncation ==
    \A r \in Slots :
        Done(r) /\ req[r].kind = "search" /\ req[r].route \in {"shard", "stream"}
                /\ AllReadable /\ ~req[r].limit.nan =>
            LET n == prefixCount(scanned(r), req[r].key)
                L == req[r].limit.n
            IN  /\ req[r].status = 200
                /\ n > L => Len(req[r].body.matches) = L /\ req[r].body.truncated
                /\ n < L => Len(req[r].body.matches) = n /\ ~req[r].body.truncated

----------------------------------------------------------------------------
(* Streaming scan *)

indexOf(k) == CHOOSE i \in 1..Len(Source) : Source[i].key = k

\* the stream of request r has delivered the member whose key is wanted
Delivered(r) ==
    /\ req[r].kind = "word" /\ req[r].route = "stream"
    /\ req[r].key \in DatasetKeys
    /\ req[r].pos >= indexOf(req[r].key)

\* C9: once the wanted member is delivered the streams are destroyed, no later
\* member is delivered, and the request stays answered once, with that member.
C9_ScanStopsAtMatch ==
    \A r \in Slots :
        Delivered(r) =>
            /\ req[r].stream \in {"destroyed", "errored"}
            /\ req[r].pos = indexOf(req[r].key)
            /\ req[r].nresp = 1
            /\ answerOf(r) = streamAnswer(req[r].key)

\* a match before the end of the source, and an 'error' event after it
C9_Witness ==
    \E r \in Slots :
        /\ Delivered(r)
        /\ req[r].pos < Len(Source)
        /\ req[r].stream = "errored"
        /\ alive

\* C10: a request whose stream met an I/O or parse error is answered with
\* Fault (500), once, and the process lives on.
C10_StreamFaultSurfaces ==
    \A r \in Slots :
        req[r].fault # "none" =>
            alive /\ req[r].status = 500 /\ req[r].nresp = 1


----------------------------------------------------------------------------
(* The bucket router alone *)

\* characters of the keys: whitespace, ASCII letters in both cases, and
\* characters that are no ASCII letters
RouteChars == {" ", "a", "A", "c", "C", "z", "1", "_"}

RouteKeysOfLen(n) == [1..n -> RouteChars]
RouteKeys == UNION {RouteKeysOfLen(n) : n \in 0..MaxKeyLen}

\* bucketOf is applied once to key k; the key and the bucket are kept in slot 1
RouteKey(k) ==
    /\ req[1] = IdleReq
    /\ req' = [req EXCEPT ![1] = [IdleReq EXCEPT !.kind = "route", !.key = k,
                                                 !.bucket = bucketOf(k)]]
    /\ UNCHANGED <<entryCache, cacheGhost, started, manifestReadable, shardsEnabled,
                   alive, shardCache, shardFile, reads, srcStatus, dictionary>>

NextRoute == \E k \in RouteKeys : RouteKey(k)

SpecRoute == InitCache /\ [][NextRoute]_vars

\* the first character of k that is no whitespace, if any
RECURSIVE firstVisible(_)
firstVisible(k) ==
    IF k = <<>> THEN <<>>
    ELSE IF Head(k) \in Whitespace THEN firstVisible(Tail(k))
    ELSE <<Head(k)>>

\* the other case of an ASCII letter
swapCase(ch) ==
    IF ch \in AsciiUpper THEN LowerSeq[CHOOSE i \in 1..26 : UpperSeq[i] = ch]
    ELSE IF ch \in AsciiLower THEN UpperSeq[CHOOSE i \in 1..26 : LowerSeq[i] = ch]
    ELSE ch

\* k with whitespace added around it, and k with the case of its first letter
\* changed
routeVariants(k) ==
    {<<" ">> \o k, k \o <<" ">>, <<" ">> \o k \o <<" ">>}
        \cup (IF k = <<>> THEN {} ELSE {<<swapCase(k[1])>> \o Tail(k)})

\* C11: bucketOf gives the misc bucket for an empty or whitespace-only key,
\* and otherwise the first character after the leading whitespace, in lower
\* case when it is an ASCII letter; keys that differ in surrounding whitespace
\* or in the case of the first letter get the same bucket.
C11_BucketOf ==
    req[1].kind = "route" =>
        LET k == req[1].key
            b == req[1].bucket
            f == firstVisible(k)
        IN  /\ f = <<>> => b = "_misc"
            /\ f # <<>> =>
                 /\ f[1] \in AsciiUpper \cup AsciiLower =>
                        b \in AsciiLower /\ b \in {f[1], swapCase(f[1])}
                 /\ f[1] \notin AsciiUpper \cup AsciiLower => b = f[1]
            /\ \A v \in routeVariants(k) : bucketOf(v) = b

\* a key with whitespace around it and an upper-case first letter was routed
C11_Witness ==
    /\ req[1].kind = "route"
    /\ req[1].key = <<" ", "C", " ">>
    /\ req[1].bucket = "c"

----------------------------------------------------------------------------
(* The limit of a prefix search *)

\* the largest number of matches a search with this effective limit may
\* return: the limit itself, none for a limit below 0, the cap of 200 when the
\* limit is no number
allowedMatches(limit) ==
    IF limit.nan THEN 200 ELSE IF limit.n < 0 THEN 0 ELSE limit.n

\* C12: a prefix search returns at most min(limit, 200) matches (50 when the
\* limit is absent), whatever limit was supplied, in both modes.
C12_LimitRespected ==
    \A r \in Slots :
        Done(r) /\ req[r].kind = "search" /\ req[r].status = 200 =>
            Len(req[r].body.matches) <= allowedMatches(req[r].limit)

----------------------------------------------------------------------------
(* The mode switch *)

\* C13: sharded mode is enabled exactly when the manifest was readable at
\* startup; the flag is set by initShardsIfAvailable before any request is
\* accepted and no later step changes it.
C13_ModeFixedAtStartup ==
    /\ [](/\ started => (shardsEnabled <=> manifestReadable)
          /\ ~started => ~shardsEnabled /\ \A r \in Slots : req[r] = IdleReq)
    /\ [][started => shardsEnabled' = shardsEnabled]_vars

\* the server started with a readable manifest and answered from a shard
C13_Witness ==
    /\ started /\ manifestReadable /\ shardsEnabled
    /\ \E r \in Slots : Done(r) /\ req[r].route = "shard"

----------------------------------------------------------------------------
(* One response per request *)

\* C14: a request sends exactly one response, whatever the order of the data,
\* end and error events of its stream: no handler sends a second response,
\* also not for an error event that arrives after the response was sent.
C14_SingleResponse ==
    \A r \in Slots :
        /\ req[r].nresp <= 1
        /\ req[r].pc = "done" <=> req[r].nresp = 1

----------------------------------------------------------------------------
(* What the cache holds *)

\* the (key, value) pairs of the dataset
DatasetPairs == {Source[i] : i \in 1..Len(Source)}

\* C15: every (key, value) pair held in the cache is a pair of the dataset: the
\* cache is written only by an exact lookup that ends in Found, with the entry
\* it returns.
C15_CacheHoldsDataset ==
    \A i \in 1..Len(entryCache) : entryCache[i] \in DatasetPairs

----------------------------------------------------------------------------
(* Prefix search and the cache *)

\* a step of a prefix search: the request in some slot changed and is a search
SearchStep == \E r \in Slots : req'[r] # req[r] /\ req'[r].kind = "search"

\* C16: no step of a prefix search, in either mode and whatever its outcome,
\* changes the contents or the recency order of the cache.
C16_SearchLeavesCache == [][SearchStep => entryCache' = entryCache]_vars

\* a search was answered with matches while the cache held two entries
C16_Witness ==
    /\ Len(entryCache) = 2
    /\ \E r \in Slots : /\ Done(r) /\ req[r].kind = "search" /\ req[r].status = 200
                        /\ req[r].body.matches # <<>>

----------------------------------------------------------------------------
(* The cache hit *)

\* an exact lookup of a key arrives in slot r: the slot was free and now holds
\* a lookup whose stream, if it has one, has seen no event yet
WordArrival(r) ==
    /\ req[r].pc \in {"idle", "done"}
    /\ req'[r].kind = "word"
    /\ req'[r] # req[r]
    /\ req'[r].stream \in {"none", "open"} /\ req'[r].pos = 0

\* C17: an exact lookup whose key is in the cache is answered at once with the
\* cached entry, starts no shard load and opens no stream, and changes nothing
\* but the position of that key, which becomes the most recently used.
C17_CacheHit ==
    [][\A r \in Slots :
          WordArrival(r) /\ mapHas(entryCache, req'[r].key) =>
              LET k == req'[r].key
                  v == mapGet(entryCache, k)
              IN  /\ req'[r].pc = "done" /\ req'[r].nresp = 1
                  /\ req'[r].status = 200 /\ req'[r].body.value = v
                  /\ req'[r].route = "cache" /\ req'[r].stream = "none"
                  /\ entryCache' = Append(mapDelete(entryCache, k),
                                          [key |-> k, value |-> v])
                  /\ UNCHANGED <<shardCache, shardFile, reads, shardsEnabled, alive>>
                  /\ \A p \in Slots : p # r /\ req[p].pc # "done" => req'[p] = req[p]]_vars

\* a lookup was answered from a full cache and its key is the most recent
C17_Witness ==
    /\ Len(entryCache) = CACHE_LIMIT
    /\ \E r \in Slots : /\ Done(r) /\ req[r].route = "cache" /\ req[r].status = 200
                        /\ entryCache[Len(entryCache)] =
                               [key |-> req[r].key, value |-> req[r].body.value]
                        /\ \E p \in Slots : req[p].pc \in {"awaitShard", "streaming"}

----------------------------------------------------------------------------
(* The cache under concurrent requests *)

\* C18: with requests interleaved at their suspension points, the cache holds
\* each key at most once, in one recency order, and never more than
\* CACHE_LIMIT entries, also when concurrent lookups of one uncached key all
\* store it.
C18_CacheConsistent ==
    /\ Len(entryCache) <= CACHE_LIMIT
    /\ \A i, j \in 1..Len(entryCache) :
           entryCache[i].key = entryCache[j].key => i = j

\* a lookup that missed the cache is still in flight while a concurrent lookup
\* of the same key has stored the entry in a full cache
C18_Witness ==
    /\ Len(entryCache) = CACHE_LIMIT
    /\ \E r, p \in Slots :
          /\ r # p
          /\ req[r].kind = "word" /\ req[p].kind = "word"
          /\ req[r].key = req[p].key
          /\ Done(r) /\ req[r].status = 200 /\ req[r].route \in {"shard", "stream"}
          /\ req[p].pc \in {"awaitShard", "streaming"}
          /\ mapHas(entryCache, req[p].key)

----------------------------------------------------------------------------
(* Prefix search in the two modes *)

\* the streaming scan of request rq from member i of the source on, when no
\* stream fails
RECURSIVE streamSearchFrom(_, _)
streamSearchFrom(rq, i) ==
    IF rq.nresp > 0 THEN rq
    ELSE IF i > Len(Source) THEN searchOnEnd(rq)
    ELSE streamSearchFrom(searchOnData(rq, Source[i]), i + 1)

searchRequest(q, limit) == [IdleReq EXCEPT !.kind = "search", !.key = q, !.limit = limit]

searchAnswer(rq) == [matches |-> rq.body.matches, truncated |-> rq.body.truncated]

\* the answer of streaming mode, and of sharded mode with readable shards
streamSearchAnswer(q, limit) == searchAnswer(streamSearchFrom(searchRequest(q, limit), 1))
shardSearchAnswer(q, limit) ==
    searchAnswer(searchResolve(searchRequest(q, limit), shardValue(bucketOf(q), "ok")))

\* C19: over readable shards and source, a prefix search answered in one mode
\* has the matches and the truncated flag that the other mode gives for the
\* same query and limit.
C19_SearchModesAgree ==
    \A r \in Slots :
        Done(r) /\ req[r].kind = "search" /\ req[r].status = 200 /\ AllReadable =>
            /\ req[r].route = "shard" =>
                   searchAnswer(req[r]) = streamSearchAnswer(req[r].key, req[r].limit)
            /\ req[r].route = "stream" =>
                   searchAnswer(req[r]) = shardSearchAnswer(req[r].key, req[r].limit)

----------------------------------------------------------------------------
(* The server that loads the whole file: dictionary, GET /word/:key *)

\* JSON values an entry can have: an object, and the values 0, false, null, ""
MemValues == {"v_entry", "0", "false", "null", "\"\""}

NoMember == "no member"

\* the text of dictionary.json: the members cat and ca, each present or not
MemFile(v1, v2) ==
    (IF v1 = NoMember THEN <<>> ELSE <<[key |-> K_cat, value |-> v1]>>)
        \o (IF v2 = NoMember THEN <<>> ELSE <<[key |-> K_ca, value |-> v2]>>)

\* JSON.parse(fs.readFileSync('dictionary.json', 'utf8'))
MemDictionaries ==
    {jsonParse(MemFile(v1, v2)) : v1, v2 \in MemValues \cup {NoMember}}

\* !entry
isFalsy(v) == v \in {UNDEFINED, "0", "false", "null", "\"\""}

\* the handler of GET /word/:key over the loaded dictionary
memWord(dict, key) ==
    LET entry == propGet(dict, key)
        rq == [IdleReq EXCEPT !.kind = "memory", !.key = key, !.route = "memory"]
    IN  IF isFalsy(entry) THEN resJson(rq, 404, NoBody)
        ELSE resJson(rq, 200, valueBody(entry))

MemLookup(k) ==
    /\ req' = [req EXCEPT ![1] = memWord(dictionary, k)]
    /\ UNCHANGED <<entryCache, cacheGhost, started, manifestReadable, shardsEnabled,
                   alive, shardCache, shardFile, reads, srcStatus, dictionary>>

InitMemory ==
    /\ InitServer /\ manifestReadable = FALSE /\ srcStatus = "ok"
    /\ dictionary \in MemDictionaries

NextMemory == \E k \in WordKeys : MemLookup(k)

SpecMemory == InitMemory /\ [][NextMemory]_vars

\* C20: over the loaded dictionary an exact lookup ends in Found with the
\* stored entry for every key the dictionary holds, whatever its value, and in
\* NotFound for every other key.
C20_MemoryLookup ==
    req[1].kind = "memory" =>
        LET k == req[1].key IN
        /\ mapHas(dictionary, k) =>
               req[1].status = 200 /\ req[1].body.value = mapGet(dictionary, k)
        /\ ~mapHas(dictionary, k) => req[1].status = 404

====
